---- MODULE Spec2Model ----
(***************************************************************************)
(* The knowledge store of ofercell/knowledgebase                           *)
(* (src/src/knowledgebase/storage/knowledge_store.py): the vector-index    *)
(* collection, the handlers add_document_chunks, search,                   *)
(* get_all_documents, delete_document and get_stats, and the callers that  *)
(* run them, one at a time (Spec) or interleaved at the index calls        *)
(* (SpecConc).                                                             *)
(***************************************************************************)
EXTENDS Integers, Sequences, FiniteSets, TLC

VARIABLES collection, nextId, last, pc, loc, seen, split, processors, documents_path

vars == <<collection, nextId, last, pc, loc, seen, split, processors, documents_path>>

----------------------------------------------------------------------------
(* Bounds of the model. *)

\* uuid4 values drawn over a whole run
MaxIds == 3
\* chunks in one add_document_chunks call
MaxChunks == 2
\* characters of a text handed to _split_text
MaxLen == 6
\* the largest config.CHUNK_SIZE and config.CHUNK_OVERLAP tried
MaxChunkSize == 4
MaxOverlap == 4
\* iterations of the _split_text loop followed before the model stops looking
MaxIter == 8
\* records in the store the question-answering handlers are run on
MaxStored == 2

----------------------------------------------------------------------------
(* Python values.  A metadata value carries its type, so that a list is    *)
(* told from a string: kind is "str", "int", "bool" or "list".             *)

None == -1

PyStr(x) == [kind |-> "str", s |-> x, n |-> 0]
PyInt(k) == [kind |-> "int", s |-> "", n |-> k]
PyBool(b) == [kind |-> "bool", s |-> "", n |-> IF b THEN 1 ELSE 0]
PyList(x) == [kind |-> "list", s |-> x, n |-> 0]
\* None as a value of a dict
PyNone == [kind |-> "none", s |-> "", n |-> 0]

\* dict.get(key, default)
Get(d, key, default) == IF key \in DOMAIN d THEN d[key] ELSE default

\* the empty dict
EmptyDict == [k \in {} |-> PyStr("")]

\* str < str on the file names of the model
StrRank(x) ==
    CASE x = "" -> 0
      [] x = "a.pdf" -> 1
      [] x = "b.docx" -> 2
      [] OTHER -> 3

Range(q) == {q[i] : i \in DOMAIN q}

----------------------------------------------------------------------------
(* DocumentChunk and the chunks the processors hand over.                  *)

DocumentChunk(content, metadata, page_number, chunk_index) ==
    [content |-> content, metadata |-> metadata,
     page_number |-> page_number, chunk_index |-> chunk_index]

\* DocumentProcessor.extract_metadata
extract_metadata(name, path, suffix) ==
    [filename |-> PyStr(name), file_path |-> PyStr(path), file_extension |-> PyStr(suffix)]

\* a chunk of PDFProcessor.process: page page_num of a.pdf
PdfChunk(content, page_num, idx) ==
    DocumentChunk(content,
        ("num_pages" :> PyInt(2)) @@ ("page_number" :> PyInt(page_num))
            @@ ("chunk_type" :> PyStr("text"))
            @@ extract_metadata("a.pdf", "/in/a.pdf", ".pdf"),
        page_num, idx)

\* a chunk of DOCXProcessor.process: b.docx
DocxChunk(content, idx) ==
    DocumentChunk(content,
        ("chunk_type" :> PyStr("text")) @@ ("supports_hebrew" :> PyBool(TRUE))
            @@ extract_metadata("b.docx", "/in/b.docx", ".docx"),
        None, idx)

\* the chunks a caller passes to add_document_chunks
ChunkInputs ==
    { PdfChunk("x", 1, 0),
      PdfChunk("y", 2, 0),
      DocxChunk("x", 0),
      \* no filename key at all
      DocumentChunk("y", EmptyDict, None, None),
      \* an empty filename
      DocumentChunk("y", [filename |-> PyStr("")], None, None),
      \* a nested value under a key of its own
      DocumentChunk("y",
          ("tags" :> PyList("t")) @@ extract_metadata("b.docx", "/in/b.docx", ".docx"),
          None, 0),
      \* a nested value as the filename
      DocumentChunk("x", [filename |-> PyList("a.pdf")], None, 0) }

RECURSIVE SeqsUpTo(_, _)
SeqsUpTo(S, n) ==
    IF n = 0 THEN {<<>>}
    ELSE LET shorter == SeqsUpTo(S, n - 1)
         IN shorter \cup {Append(q, x) : q \in {p \in shorter : Len(p) = n - 1}, x \in S}

Batches == SeqsUpTo(ChunkInputs, MaxChunks)

Filenames == {"", "a.pdf", "b.docx"}

----------------------------------------------------------------------------
(* The vector index (chromadb collection), as the store calls it.  A       *)
(* record is [id, document, embedding, metadata]; ids are drawn in         *)
(* increasing order, so the order of ids is the order of insertion.        *)

\* the embedding capability: a fixed vector per text
Embed(text) ==
    CASE text = "x" -> 0
      [] text = "y" -> 3
      [] OTHER -> 1

IsScalar(v) == v.kind \in {"str", "int", "bool"}

Ids(coll) == {r.id : r \in coll}

\* the records of coll in insertion order
RECURSIVE InOrder(_)
InOrder(coll) ==
    IF coll = {} THEN <<>>
    ELSE LET first == CHOOSE r \in coll : \A o \in coll : r.id <= o.id
         IN <<first>> \o InOrder(coll \ {first})

\* where: exact equality on each provided key
Matches(metadata, where) ==
    \A k \in DOMAIN where : k \in DOMAIN metadata /\ metadata[k] = where[k]

\* collection.add(ids, documents, embeddings, metadatas): validates the
\* whole batch, then writes it; a record whose id is already there is skipped
CollAdd(coll, ids, documents, embeddings, metadatas) ==
    LET n == Len(ids)
        valid == /\ \A i, j \in 1..n : i # j => ids[i] # ids[j]
                 /\ \A i \in 1..n : \A k \in DOMAIN metadatas[i] : IsScalar(metadatas[i][k])
        recs == {[id |-> ids[i], document |-> documents[i],
                  embedding |-> embeddings[i], metadata |-> metadatas[i]] : i \in 1..n}
    IN IF valid
       THEN [ok |-> TRUE, coll |-> coll \cup {r \in recs : r.id \notin Ids(coll)}]
       ELSE [ok |-> FALSE, coll |-> coll]

\* collection.get(where=...)
CollGet(coll, where) == InOrder({r \in coll : Matches(r.metadata, where)})

\* collection.delete(ids=...)
CollDelete(coll, ids) == {r \in coll : r.id \notin Range(ids)}

\* collection.count()
CollCount(coll) == Cardinality(coll)

\* the distance of a stored embedding to the query's
Distance(a, b) == IF a <= b THEN b - a ELSE a - b

\* the records of S by increasing distance to query_embedding, the older first
\* among equals
RECURSIVE Ranked(_, _)
Ranked(S, query_embedding) ==
    IF S = {} THEN <<>>
    ELSE LET d(r) == Distance(r.embedding, query_embedding)
             best == CHOOSE r \in S : \A o \in S :
                        d(r) < d(o) \/ (d(r) = d(o) /\ r.id <= o.id)
         IN <<best>> \o Ranked(S \ {best}, query_embedding)

\* collection.query(query_embeddings=[e], n_results=n, where=...)
CollQuery(coll, query_embedding, n_results, where) ==
    LET ranked == Ranked({r \in coll : Matches(r.metadata, where)}, query_embedding)
    IN SubSeq(ranked, 1, IF Len(ranked) < n_results THEN Len(ranked) ELSE n_results)

----------------------------------------------------------------------------
(* KnowledgeStore: the handlers, as functions of the collection they are   *)
(* run on.  Each returns the collection it leaves and what the caller gets.*)

\* an id derived from the chunk's content
ContentId(chunk, i, drawn) == Embed(chunk.content) + 1

\* str(uuid.uuid4()) for the i-th chunk of a call, after `drawn` earlier draws
ChunkId(chunk, i, drawn) == drawn + i

\* the metadata add_document_chunks hands to the index for a chunk
StoredMetadata(chunk) ==
    LET metadata == [filename |-> Get(chunk.metadata, "filename", PyStr("")),
                     file_path |-> Get(chunk.metadata, "file_path", PyStr("")),
                     file_extension |-> Get(chunk.metadata, "file_extension", PyStr("")),
                     chunk_type |-> Get(chunk.metadata, "chunk_type", PyStr("text"))]
        paged == IF chunk.page_number # None /\ chunk.page_number # 0
                 THEN ("page_number" :> PyInt(chunk.page_number)) @@ metadata
                 ELSE metadata
    IN IF chunk.chunk_index # None
       THEN ("chunk_index" :> PyInt(chunk.chunk_index)) @@ paged
       ELSE paged

\* what a call of add_document_chunks leaves and returns
AddOutcome(coll, ids, err, embedCalls, indexCalls) ==
    [coll |-> coll, ids |-> ids, err |-> err,
     embedCalls |-> embedCalls, indexCalls |-> indexCalls]

\* the ids, documents and metadatas the loop over the chunks prepares
Prepared(chunks, drawn) ==
    [ids |-> [i \in 1..Len(chunks) |-> ChunkId(chunks[i], i, drawn)],
     documents |-> [i \in 1..Len(chunks) |-> chunks[i].content],
     metadatas |-> [i \in 1..Len(chunks) |-> StoredMetadata(chunks[i])]]

\* embeddings.embed_documents(documents)
embed_documents(documents) == [i \in DOMAIN documents |-> Embed(documents[i])]

\* a store that embeds and inserts chunk by chunk: a fault after the first
\* chunk leaves that chunk in the index
add_document_chunks_eager(coll, chunks, drawn, fault) ==
    IF chunks = <<>> THEN AddOutcome(coll, <<>>, "none", 0, 0)
    ELSE LET p == Prepared(chunks, drawn)
             one == CollAdd(coll, SubSeq(p.ids, 1, 1), SubSeq(p.documents, 1, 1),
                            embed_documents(SubSeq(p.documents, 1, 1)),
                            SubSeq(p.metadatas, 1, 1))
             added == CollAdd(coll, p.ids, p.documents, embed_documents(p.documents),
                              p.metadatas)
         IN IF fault = "embed" THEN AddOutcome(one.coll, <<>>, "EmbeddingError", 1, 1)
            ELSE IF fault = "index" THEN AddOutcome(coll, <<>>, "StoreError", 1, 1)
            ELSE IF ~added.ok THEN AddOutcome(coll, <<>>, "ValueError", 1, 1)
            ELSE AddOutcome(added.coll, p.ids, "none", 1, 1)

\* fault: "none", "embed" (embed_documents raises) or "index" (the index
\* cannot write and raises)
add_document_chunks(coll, chunks, drawn, fault) ==
    IF chunks = <<>> THEN AddOutcome(coll, <<>>, "none", 0, 0)
    ELSE LET p == Prepared(chunks, drawn)
         IN IF fault = "embed" THEN AddOutcome(coll, <<>>, "EmbeddingError", 1, 0)
            ELSE LET embeddings_list == embed_documents(p.documents)
                     added == CollAdd(coll, p.ids, p.documents, embeddings_list,
                                      p.metadatas)
                 IN IF fault = "index" THEN AddOutcome(coll, <<>>, "StoreError", 1, 1)
                    ELSE IF ~added.ok THEN AddOutcome(coll, <<>>, "ValueError", 1, 1)
                    ELSE AddOutcome(added.coll, p.ids, "none", 1, 1)

\* sorted(list(filenames))
RECURSIVE sorted(_)
sorted(S) ==
    IF S = {} THEN <<>>
    ELSE LET least == CHOOSE x \in S : \A y \in S : StrRank(x) <= StrRank(y)
         IN <<least>> \o sorted(S \ {least})

\* the filenames in the order of the records, neither sorted nor made distinct
DocumentsOf_listed(results) ==
    [i \in DOMAIN results |-> Get(results[i].metadata, "filename", PyStr("")).s]

\* the documents get_all_documents makes of the records the index returned
DocumentsOf(results) ==
    IF results = <<>> THEN <<>>
    ELSE LET filenames == {results[i].metadata["filename"].s :
                              i \in {j \in DOMAIN results : "filename" \in DOMAIN results[j].metadata}}
         IN sorted(filenames)

get_all_documents(coll) == DocumentsOf(CollGet(coll, EmptyDict))

\* the ids of the records the index returned
ResultIds(results) == [i \in DOMAIN results |-> results[i].id]

\* a delete that removes only the first matching record
delete_document_first(coll, filename) ==
    LET results == CollGet(coll, [filename |-> PyStr(filename)])
    IN IF results = <<>>
       THEN [coll |-> coll, count |-> 0]
       ELSE [coll |-> CollDelete(coll, SubSeq(ResultIds(results), 1, 1)),
             count |-> Len(ResultIds(results))]

\* a delete whose get has no where clause
delete_document_all(coll, filename) ==
    LET results == CollGet(coll, EmptyDict)
    IN IF results = <<>>
       THEN [coll |-> coll, count |-> 0]
       ELSE [coll |-> CollDelete(coll, ResultIds(results)), count |-> Len(ResultIds(results))]

delete_document(coll, filename) ==
    LET results == CollGet(coll, [filename |-> PyStr(filename)])
    IN IF results = <<>>
       THEN [coll |-> coll, count |-> 0]
       ELSE [coll |-> CollDelete(coll, ResultIds(results)), count |-> Len(ResultIds(results))]

\* a dictionary that reports the record count as the number of documents
StatsOf_count(count, documents) ==
    [total_chunks |-> count, total_documents |-> count, documents |-> documents]

\* the dictionary get_stats returns for a count and a document list
StatsOf(count, documents) ==
    [total_chunks |-> count, total_documents |-> Len(documents), documents |-> documents]

get_stats(coll) == StatsOf(CollCount(coll), get_all_documents(coll))

\* a search that leaves the filter out of the query
search_unfiltered(coll, query, n_results, filter_metadata) ==
    LET query_embedding == Embed(query)
        results == CollQuery(coll, query_embedding, n_results, EmptyDict)
    IN [i \in DOMAIN results |->
            [content |-> results[i].document,
             metadata |-> results[i].metadata,
             distance |-> Distance(results[i].embedding, query_embedding)]]

\* search(query, n_results, filter_metadata): the formatted results
search(coll, query, n_results, filter_metadata) ==
    LET query_embedding == Embed(query)
        results == CollQuery(coll, query_embedding, n_results, filter_metadata)
    IN [i \in DOMAIN results |->
            [content |-> results[i].document,
             metadata |-> results[i].metadata,
             distance |-> Distance(results[i].embedding, query_embedding)]]

\* the queries, result counts and filters of the model's searches
Queries == {"x", "y"}
Filters == {EmptyDict} \cup {[filename |-> PyStr(f)] : f \in Filenames}

----------------------------------------------------------------------------
(* One caller: every handler runs from call to return before the next.     *)

\* DocumentProcessorFactory.__init__: a processor whose library cannot be
\* imported is not registered
Registered(pdfLib, docxLib) ==
    (IF pdfLib THEN <<"pdf">> ELSE <<>>) \o (IF docxLib THEN <<"docx">> ELSE <<>>)

\* no path, and what a call that returns nothing of the kind leaves
NoPath == [stem |-> "", suffix |-> "", exists |-> FALSE]
NoOutput == [by |-> "None", file |-> ""]

NoCall ==
    [op |-> "none", caller |-> 0, path |-> NoPath, processor |-> "None",
     output |-> NoOutput, query |-> "", n_results |-> 0, where |-> EmptyDict,
     results |-> <<>>, answer |-> "", sources |-> <<>>, context_used |-> <<>>,
     items |-> <<>>, tests |-> <<>>, response |-> "", prompt |-> "", fault |-> "none", file_deleted |-> FALSE,
     searchCalls |-> 0, llmCalls |-> 0, filename |-> "", count |-> 0, ids |-> <<>>, chunks |-> <<>>,
     documents |-> <<>>, total_chunks |-> 0, total_documents |-> 0, err |-> "none",
     embedCalls |-> 0, indexCalls |-> 0]

Callers == {1, 2}

\* no _split_text call in progress
SplitIdle ==
    [pc |-> "idle", proc |-> "none", text |-> <<>>, chunk_size |-> 0, overlap |-> 0,
     chunk_overlap |-> 0, start |-> 0, chunks |-> <<>>]

Init ==
    /\ collection = {}
    /\ nextId = 0
    /\ last = NoCall
    /\ pc = [c \in Callers |-> "idle"]
    /\ loc = [c \in Callers |-> [count |-> 0, ids |-> <<>>, filename |-> ""]]
    /\ seen = [c \in Callers |-> {}]
    /\ split = SplitIdle
    /\ processors = Registered(TRUE, TRUE)
    /\ documents_path = {}

AddChunks ==
    \E chunks \in Batches, fault \in {"none", "embed", "index"} :
        /\ nextId + Len(chunks) <= MaxIds
        /\ LET r == add_document_chunks(collection, chunks, nextId, fault)
           IN /\ collection' = r.coll
              /\ last' = [NoCall EXCEPT !.op = "add", !.chunks = chunks, !.ids = r.ids,
                                        !.err = r.err, !.embedCalls = r.embedCalls,
                                        !.indexCalls = r.indexCalls]
        /\ nextId' = nextId + Len(chunks)
        /\ UNCHANGED <<pc, loc, seen, split, processors, documents_path>>

DeleteDocument ==
    \E filename \in Filenames :
        /\ LET r == delete_document(collection, filename)
           IN /\ collection' = r.coll
              /\ last' = [NoCall EXCEPT !.op = "delete", !.filename = filename,
                                        !.count = r.count]
        /\ UNCHANGED <<nextId, pc, loc, seen, split, processors, documents_path>>

ListDocuments ==
    /\ last' = [NoCall EXCEPT !.op = "list", !.documents = get_all_documents(collection)]
    /\ UNCHANGED <<collection, nextId, pc, loc, seen, split, processors, documents_path>>

Stats ==
    /\ LET r == get_stats(collection)
       IN last' = [NoCall EXCEPT !.op = "stats", !.documents = r.documents,
                                 !.total_chunks = r.total_chunks,
                                 !.total_documents = r.total_documents]
    /\ UNCHANGED <<collection, nextId, pc, loc, seen, split, processors, documents_path>>

Next == AddChunks \/ DeleteDocument \/ ListDocuments \/ Stats

Spec == Init /\ [][Next]_vars

----------------------------------------------------------------------------
(* Independent callers: a handler that calls the index twice (get_stats:   *)
(* count, then get; delete_document: get, then delete) can be overtaken    *)
(* between its two calls.  pc[c] is where caller c stands, loc[c] what it  *)
(* holds from its first call, and seen[c] what get_stats would have        *)
(* returned on each state of the collection during c's get_stats call.     *)

\* the states of the collection the callers inside get_stats have lived through
Observed(coll) ==
    [c \in Callers |-> IF pc[c] = "stats_counted" THEN seen[c] \cup {get_stats(coll)}
                       ELSE seen[c]]

\* the calls of add_document_chunks that interleave: one chunk of either document
ConcBatches == {<<PdfChunk("x", 1, 0)>>, <<DocxChunk("x", 0)>>}

CAddChunks(c) ==
    \E chunks \in ConcBatches, fault \in {"none", "embed"} :
        /\ pc[c] = "idle"
        /\ nextId + Len(chunks) <= MaxIds
        /\ LET r == add_document_chunks(collection, chunks, nextId, fault)
           IN /\ collection' = r.coll
              /\ seen' = Observed(r.coll)
              /\ last' = [NoCall EXCEPT !.op = "add", !.caller = c, !.chunks = chunks,
                                        !.ids = r.ids, !.err = r.err,
                                        !.embedCalls = r.embedCalls,
                                        !.indexCalls = r.indexCalls]
        /\ nextId' = nextId + Len(chunks)
        /\ UNCHANGED <<pc, loc, split, processors, documents_path>>

\* delete_document up to the return of collection.get
CDeleteGet(c) ==
    \E filename \in Filenames :
        /\ pc[c] = "idle"
        /\ LET results == CollGet(collection, [filename |-> PyStr(filename)])
           IN IF results = <<>>
              THEN /\ last' = [NoCall EXCEPT !.op = "delete", !.caller = c,
                                             !.filename = filename, !.count = 0]
                   /\ UNCHANGED <<pc, loc>>
              ELSE /\ pc' = [pc EXCEPT ![c] = "delete_got"]
                   /\ loc' = [loc EXCEPT ![c] = [count |-> 0, ids |-> ResultIds(results),
                                                 filename |-> filename]]
                   /\ UNCHANGED last
        /\ UNCHANGED <<collection, nextId, seen, split, processors, documents_path>>

\* delete_document from collection.delete to its return
CDeleteIds(c) ==
    /\ pc[c] = "delete_got"
    /\ collection' = CollDelete(collection, loc[c].ids)
    /\ seen' = Observed(CollDelete(collection, loc[c].ids))
    /\ last' = [NoCall EXCEPT !.op = "delete", !.caller = c,
                              !.filename = loc[c].filename, !.count = Len(loc[c].ids)]
    /\ pc' = [pc EXCEPT ![c] = "idle"]
    /\ loc' = [loc EXCEPT ![c] = [count |-> 0, ids |-> <<>>, filename |-> ""]]
    /\ UNCHANGED <<nextId, split, processors, documents_path>>

CListDocuments(c) ==
    /\ pc[c] = "idle"
    /\ last' = [NoCall EXCEPT !.op = "list", !.caller = c,
                              !.documents = get_all_documents(collection)]
    /\ UNCHANGED <<collection, nextId, pc, loc, seen, split, processors, documents_path>>

\* get_stats up to the return of collection.count
CStatsCount(c) ==
    /\ pc[c] = "idle"
    /\ pc' = [pc EXCEPT ![c] = "stats_counted"]
    /\ loc' = [loc EXCEPT ![c] = [count |-> CollCount(collection), ids |-> <<>>,
                                  filename |-> ""]]
    /\ seen' = [seen EXCEPT ![c] = {get_stats(collection)}]
    /\ UNCHANGED <<collection, nextId, last, split, processors, documents_path>>

\* get_stats from get_all_documents to its return
CStatsList(c) ==
    /\ pc[c] = "stats_counted"
    /\ LET r == StatsOf(loc[c].count, get_all_documents(collection))
       IN last' = [NoCall EXCEPT !.op = "stats", !.caller = c,
                                 !.documents = r.documents,
                                 !.total_chunks = r.total_chunks,
                                 !.total_documents = r.total_documents]
    /\ pc' = [pc EXCEPT ![c] = "idle"]
    /\ loc' = [loc EXCEPT ![c] = [count |-> 0, ids |-> <<>>, filename |-> ""]]
    /\ UNCHANGED <<collection, nextId, seen, split, processors, documents_path>>

NextConc ==
    \E c \in Callers :
        \/ CAddChunks(c)
        \/ CDeleteGet(c)
        \/ CDeleteIds(c)
        \/ CListDocuments(c)
        \/ CStatsCount(c)
        \/ CStatsList(c)

SpecConc == Init /\ [][NextConc]_vars

----------------------------------------------------------------------------
(* The chunker: DOCXProcessor._split_text and PDFProcessor._split_text,    *)
(* statement by statement.  A text is the sequence of its characters; the  *)
(* model's texts are made of distinct characters, so that a window tells   *)
(* where it was cut.  split holds the call in progress: its processor      *)
(* (proc), config.CHUNK_SIZE (chunk_size), config.CHUNK_OVERLAP as         *)
(* configured (overlap) and as used (chunk_overlap), and the loop's start  *)
(* and chunks.                                                             *)

Texts == {[i \in 1..n |-> i] : n \in 0..MaxLen}

ChunkSizes == (0 - 1)..MaxChunkSize

Overlaps == 0..MaxOverlap

\* a slice index as Python reads it on a text of length n
SliceIndex(i, n) ==
    IF i < 0 THEN (IF i + n < 0 THEN 0 ELSE i + n)
    ELSE (IF i > n THEN n ELSE i)

\* text[start:end]
Slice(text, start, end) ==
    SubSeq(text, SliceIndex(start, Len(text)) + 1, SliceIndex(end, Len(text)))

\* a loop whose next window starts where the last one ended
NextStart_end(end, chunk_overlap) == end

\* start = end - chunk_overlap
NextStart(end, chunk_overlap) == end - chunk_overlap

\* the overlap the loop uses: only the DOCX splitter clamps it
EffectiveOverlap(proc, chunk_size, overlap) ==
    IF proc = "docx" /\ overlap >= chunk_size
    THEN chunk_size \div 2
    ELSE overlap

InitSplit ==
    /\ collection = {}
    /\ nextId = 0
    /\ last = NoCall
    /\ pc = [c \in Callers |-> "idle"]
    /\ loc = [c \in Callers |-> [count |-> 0, ids |-> <<>>, filename |-> ""]]
    /\ seen = [c \in Callers |-> {}]
    /\ processors = Registered(TRUE, TRUE)
    /\ documents_path = {}
    /\ \E proc \in {"pdf", "docx"}, text \in Texts,
          chunk_size \in ChunkSizes, overlap \in Overlaps :
            split = [SplitIdle EXCEPT !.pc = "call", !.proc = proc, !.text = text,
                                      !.chunk_size = chunk_size, !.overlap = overlap,
                                      !.chunk_overlap = overlap]

\* from the call to the loop, or to the early return of the whole text
SplitEnter ==
    /\ split.pc = "call"
    /\ LET chunk_overlap == EffectiveOverlap(split.proc, split.chunk_size, split.overlap)
       IN IF Len(split.text) <= split.chunk_size
          THEN split' = [split EXCEPT !.pc = "done", !.chunk_overlap = chunk_overlap,
                                      !.chunks = <<split.text>>]
          ELSE split' = [split EXCEPT !.pc = "loop", !.chunk_overlap = chunk_overlap,
                                      !.start = 0, !.chunks = <<>>]
    /\ UNCHANGED <<collection, nextId, last, pc, loc, seen, processors, documents_path>>

\* one iteration of while start < len(text)
SplitStep ==
    /\ split.pc = "loop"
    /\ split.start < Len(split.text)
    /\ Len(split.chunks) < MaxIter
    /\ LET end == split.start + split.chunk_size
           chunk == Slice(split.text, split.start, end)
       IN split' = [split EXCEPT !.chunks = Append(split.chunks, chunk),
                                 !.start = NextStart(end, split.chunk_overlap)]
    /\ UNCHANGED <<collection, nextId, last, pc, loc, seen, processors, documents_path>>

\* the loop's exit and return chunks
SplitReturn ==
    /\ split.pc = "loop"
    /\ ~(split.start < Len(split.text))
    /\ split' = [split EXCEPT !.pc = "done"]
    /\ UNCHANGED <<collection, nextId, last, pc, loc, seen, processors, documents_path>>

NextSplit == SplitEnter \/ SplitStep \/ SplitReturn

SpecSplit == InitSplit /\ [][NextSplit]_vars

----------------------------------------------------------------------------
(* The processor registry: DocumentProcessorFactory.  A path is its stem,  *)
(* its suffix and whether the file exists; what a processor's process()    *)
(* returns is told only by who made it and of which file.                  *)

Suffixes == {".pdf", ".PDF", ".docx", ".DOCX", ".doc", ".xyz", ""}

Paths == [stem : {"test", "nonexistent"}, suffix : Suffixes, exists : BOOLEAN]

\* str.lower() on the suffixes of the model
Lower(x) ==
    CASE x = ".PDF" -> ".pdf"
      [] x = ".DOCX" -> ".docx"
      [] OTHER -> x

\* PDFProcessor.can_process, DOCXProcessor.can_process
can_process(processor, path) ==
    CASE processor = "pdf" -> Lower(path.suffix) = ".pdf"
      [] processor = "docx" -> Lower(path.suffix) \in {".docx", ".doc"}
      [] OTHER -> FALSE

\* the first processor of procs that can process path, or None
RECURSIVE FirstProcessor(_, _)
FirstProcessor(procs, path) ==
    IF procs = <<>> THEN "None"
    ELSE IF can_process(Head(procs), path) THEN Head(procs)
    ELSE FirstProcessor(Tail(procs), path)

get_processor(procs, path) == FirstProcessor(procs, path)

\* processor.process(path): its chunks, or RuntimeError on a file it cannot read
process(processor, path, readable) ==
    IF readable
    THEN [err |-> "none", output |-> [by |-> processor, file |-> path.stem \o path.suffix]]
    ELSE [err |-> "RuntimeError", output |-> NoOutput]

\* a process_document that looks for the processor before it looks for the file
process_document_select_first(procs, path, readable) ==
    LET processor == get_processor(procs, path)
    IN IF processor = "None"
       THEN [err |-> "ValueError", processor |-> "None", output |-> NoOutput]
       ELSE IF ~path.exists
       THEN [err |-> "FileNotFoundError", processor |-> "None", output |-> NoOutput]
       ELSE [err |-> process(processor, path, readable).err, processor |-> processor,
             output |-> process(processor, path, readable).output]

process_document(procs, path, readable) ==
    IF ~path.exists
    THEN [err |-> "FileNotFoundError", processor |-> "None", output |-> NoOutput]
    ELSE LET processor == get_processor(procs, path)
         IN IF processor = "None"
            THEN [err |-> "ValueError", processor |-> "None", output |-> NoOutput]
            ELSE [err |-> process(processor, path, readable).err, processor |-> processor,
                  output |-> process(processor, path, readable).output]

InitFactory ==
    /\ collection = {}
    /\ nextId = 0
    /\ last = NoCall
    /\ pc = [c \in Callers |-> "idle"]
    /\ loc = [c \in Callers |-> [count |-> 0, ids |-> <<>>, filename |-> ""]]
    /\ seen = [c \in Callers |-> {}]
    /\ split = SplitIdle
    /\ \E pdfLib \in BOOLEAN, docxLib \in BOOLEAN : processors = Registered(pdfLib, docxLib)
    /\ documents_path = {}

GetProcessor ==
    \E path \in Paths :
        /\ last' = [NoCall EXCEPT !.op = "get_processor", !.path = path,
                                  !.processor = get_processor(processors, path)]
        /\ UNCHANGED <<collection, nextId, pc, loc, seen, split, processors, documents_path>>

ProcessDocument ==
    \E path \in Paths, readable \in BOOLEAN :
        /\ LET r == process_document(processors, path, readable)
           IN last' = [NoCall EXCEPT !.op = "process_document", !.path = path,
                                     !.processor = r.processor, !.output = r.output,
                                     !.err = r.err]
        /\ UNCHANGED <<collection, nextId, pc, loc, seen, split, processors, documents_path>>

NextFactory == GetProcessor \/ ProcessDocument

SpecFactory == InitFactory /\ [][NextFactory]_vars

----------------------------------------------------------------------------
(* Strings, as the question-answering handlers cut them.                   *)

Char(s, i) == SubSeq(s, i, i)

Digits == {"0", "1", "2", "3", "4", "5", "6", "7", "8", "9"}
Whitespace == {" ", "\t", "\n"}
\* the bullet character U+2022, written as an asterisk
Bullet == "*"

\* str.lstrip(chars), str.rstrip(chars)
RECURSIVE lstrip(_, _)
lstrip(s, chars) ==
    IF s # "" /\ Char(s, 1) \in chars THEN lstrip(SubSeq(s, 2, Len(s)), chars) ELSE s

RECURSIVE rstrip(_, _)
rstrip(s, chars) ==
    IF s # "" /\ Char(s, Len(s)) \in chars THEN rstrip(SubSeq(s, 1, Len(s) - 1), chars) ELSE s

\* str.strip()
strip(s) == rstrip(lstrip(s, Whitespace), Whitespace)

\* text.split("\n")
RECURSIVE split_lines(_)
split_lines(text) ==
    IF \E i \in 1..Len(text) : Char(text, i) = "\n"
    THEN LET i == CHOOSE k \in 1..Len(text) :
                      Char(text, k) = "\n" /\ \A j \in 1..(k - 1) : Char(text, j) # "\n"
         IN <<SubSeq(text, 1, i - 1)>> \o split_lines(SubSeq(text, i + 1, Len(text)))
    ELSE <<text>>

\* sub in line
Contains(line, sub) ==
    \E i \in 1..(Len(line) - Len(sub) + 1) : SubSeq(line, i, i + Len(sub) - 1) = sub

\* sep.join(parts)
RECURSIVE join(_, _)
join(sep, parts) ==
    IF parts = <<>> THEN ""
    ELSE IF Len(parts) = 1 THEN parts[1]
    ELSE parts[1] \o sep \o join(sep, Tail(parts))

\* a text of n characters
RECURSIVE Long(_)
Long(n) ==
    IF n = 0 THEN ""
    ELSE IF n % 2 = 1 THEN "z" \o Long(n - 1)
    ELSE LET half == Long(n \div 2) IN half \o half

----------------------------------------------------------------------------
(* QASystem: answer_question, extract_insights, generate_tests.  The       *)
(* completion capability answers with any text, or fails.                  *)

\* the length from which answer_question cuts an excerpt
ExcerptLimit == 200
\* n_results of the search generate_tests makes
TestResults == 5

NoAnswer == "I don't have any relevant information in the knowledge base to answer this question."

\* the chunks in the store of the question-answering handlers
QAChunks ==
    { PdfChunk("x", 1, 0),
      PdfChunk(Long(ExcerptLimit), 2, 1),
      DocxChunk(Long(ExcerptLimit + 1), 0) }

\* what llm.invoke(prompt).content may be, for each handler
Answers == {"", "The answer."}
InsightTexts ==
    { "",
      "Here:\n1. alpha\n2) beta\n\n- gamma\n* delta\nend",
      "1. 2 cats\n-\n  - x " }
TestTexts ==
    { "no test",
      "intro\nTest ID: 1\nstep a\n\nTest Case 2\n  step b ",
      "Test ID 1\nTest Case 2" }

\* the document names the callers ask about
DocumentNames == {"", "b.docx"}

\* knowledge_store.search as a handler calls it: the results, or the failure
\* of the embedding or of the index
SearchCall(coll, query, n_results, filter_metadata, fault) ==
    IF fault = "search"
    THEN [err |-> "search", results |-> <<>>]
    ELSE [err |-> "none", results |-> search(coll, query, n_results, filter_metadata)]

\* what a call of a handler of QASystem returns, and what it called on the way:
\* results is what its search returned
QAOutcome(err, results, answer, sources, context_used, items, tests, prompt, llmCalls) ==
    [err |-> err, results |-> results, answer |-> answer, sources |-> sources,
     context_used |-> context_used, items |-> items, tests |-> tests, prompt |-> prompt,
     searchCalls |-> 1, llmCalls |-> llmCalls]

\* a handler that returns the fixed answer where the search or the completion
\* failed
QAFailed_swallowed(err, results, prompt, llmCalls) ==
    QAOutcome("none", results, "I don't have any relevant information", <<>>, <<>>, <<>>, <<>>,
              prompt, llmCalls)

\* the failure of the search or of the completion, as the caller gets it:
\* nothing is caught, nothing is returned
QAFailed(err, results, prompt, llmCalls) ==
    QAOutcome(err, results, "", <<>>, <<>>, <<>>, <<>>, prompt, llmCalls)

\* "\n\n".join(f"{label} {idx + 1}: {content}") over the search results
ContextOf(open, close, search_results) ==
    join("\n\n", [i \in DOMAIN search_results |->
                     open \o ToString(i) \o close \o search_results[i].content])

\* source_info of one search result
SourceInfo(metadata) ==
    [filename |-> Get(metadata, "filename", PyStr("Unknown")),
     page_number |-> Get(metadata, "page_number", PyNone),
     chunk_index |-> Get(metadata, "chunk_index", PyNone)]

\* an excerpt that is the first ExcerptLimit characters and nothing more
Excerpt_cut(content) == Slice(content, 0, ExcerptLimit)

\* r["content"][:200] + "..." if len(r["content"]) > 200 else r["content"]
Excerpt(content) ==
    IF Len(content) > ExcerptLimit
    THEN Slice(content, 0, ExcerptLimit) \o "..."
    ELSE content

\* sources that follow the order of insertion, not of retrieval
SourcesOf_stored(search_results) ==
    LET n == Len(search_results)
    IN [i \in 1..n |-> SourceInfo(search_results[n + 1 - i].metadata)]

SourcesOf(search_results) ==
    [i \in DOMAIN search_results |-> SourceInfo(search_results[i].metadata)]

\* a handler that asks the completion whatever the search returned
MustAsk_always(search_results) == TRUE

\* `if not search_results: return`: the completion is asked only for results
MustAsk(search_results) == search_results # <<>>

answer_question(coll, question, n_results, fault, response) ==
    LET s == SearchCall(coll, question, n_results, EmptyDict, fault)
        search_results == s.results
        context == ContextOf("[Document ", "]: ", search_results)
    IN IF s.err # "none" THEN QAFailed(s.err, <<>>, "", 0)
       ELSE IF ~MustAsk(search_results)
       THEN QAOutcome("none", search_results, NoAnswer, <<>>, <<>>, <<>>, <<>>, "", 0)
       ELSE IF fault = "llm" THEN QAFailed("llm", search_results, context, 1)
       ELSE QAOutcome("none", search_results, response, SourcesOf(search_results),
                      [i \in DOMAIN search_results |-> Excerpt(search_results[i].content)],
                      <<>>, <<>>, context, 1)

\* the insights of the lines of the completion's text
RECURSIVE InsightsOf(_)
InsightsOf(lines) ==
    IF lines = <<>> THEN <<>>
    ELSE LET line == strip(Head(lines))
             marked == line # "" /\ (Char(line, 1) \in Digits \/ Char(line, 1) = "-"
                                        \/ Char(line, 1) = Bullet)
             insight == strip(lstrip(line, Digits \cup {".", "-", Bullet, ")", " "}))
         IN (IF marked /\ insight # "" THEN <<insight>> ELSE <<>>) \o InsightsOf(Tail(lines))

extract_insights(coll, document_name, max_insights, fault, response) ==
    LET s == SearchCall(coll, "key points important information insights", max_insights,
                        IF document_name # "" THEN [filename |-> PyStr(document_name)]
                        ELSE EmptyDict, fault)
        search_results == s.results
        context == ContextOf("Excerpt ", ": ", search_results)
    IN IF s.err # "none" THEN QAFailed(s.err, <<>>, "", 0)
       ELSE IF ~MustAsk(search_results)
       THEN QAOutcome("none", search_results, "", <<>>, <<>>, <<>>, <<>>, "", 0)
       ELSE IF fault = "llm" THEN QAFailed("llm", search_results, context, 1)
       ELSE QAOutcome("none", search_results, "", <<>>, <<>>,
                      Slice(InsightsOf(split_lines(response)), 0, max_insights),
                      <<>>, context, 1)

\* a parse that keeps the marker lines and drops the lines that follow them
TestsOf_markers(lines, current_test, test_cases) ==
    LET IsMarker(l) == Contains(l, "Test ID") \/ Contains(l, "Test Case")
        markers == SelectSeq(lines, IsMarker)
    IN [i \in DOMAIN markers |-> [full_text |-> strip(markers[i])]]

\* the loop of generate_tests over the lines: current_test is the record being
\* filled (open is FALSE for the empty dict), test_cases the records closed
RECURSIVE TestsOf(_, _, _)
TestsOf(lines, current_test, test_cases) ==
    IF lines = <<>>
    THEN IF current_test.open
         THEN Append(test_cases, [full_text |-> current_test.full_text])
         ELSE test_cases
    ELSE LET line == strip(Head(lines))
         IN IF Contains(line, "Test ID") \/ Contains(line, "Test Case")
            THEN TestsOf(Tail(lines), [open |-> TRUE, full_text |-> line],
                         IF current_test.open
                         THEN Append(test_cases, [full_text |-> current_test.full_text])
                         ELSE test_cases)
            ELSE IF current_test.open
            THEN TestsOf(Tail(lines),
                         [open |-> TRUE, full_text |-> current_test.full_text \o "\n" \o line],
                         test_cases)
            ELSE TestsOf(Tail(lines), current_test, test_cases)

generate_tests(coll, document_name, test_type, fault, response) ==
    LET s == SearchCall(coll, test_type \o " requirements specifications test cases",
                        TestResults,
                        IF document_name # "" THEN [filename |-> PyStr(document_name)]
                        ELSE EmptyDict, fault)
        search_results == s.results
        context == ContextOf("Section ", ": ", search_results)
    IN IF s.err # "none" THEN QAFailed(s.err, <<>>, "", 0)
       ELSE IF ~MustAsk(search_results)
       THEN QAOutcome("none", search_results, "", <<>>, <<>>, <<>>, <<>>, "", 0)
       ELSE IF fault = "llm" THEN QAFailed("llm", search_results, context, 1)
       ELSE QAOutcome("none", search_results, "", <<>>, <<>>, <<>>,
                      TestsOf(split_lines(response), [open |-> FALSE, full_text |-> ""], <<>>),
                      context, 1)

\* the arguments the callers pass
TestTypes == {"functional"}
Faults == {"none", "search", "llm"}

InitQA ==
    /\ collection = {}
    /\ nextId = 0
    /\ last = NoCall
    /\ pc = [c \in Callers |-> "idle"]
    /\ loc = [c \in Callers |-> [count |-> 0, ids |-> <<>>, filename |-> ""]]
    /\ seen = [c \in Callers |-> {}]
    /\ split = SplitIdle
    /\ processors = Registered(TRUE, TRUE)
    /\ documents_path = {}

\* add_document_chunks([chunk]) on the store the handlers read
QAAddChunk ==
    \E chunk \in QAChunks :
        /\ nextId < MaxStored
        /\ LET r == add_document_chunks(collection, <<chunk>>, nextId, "none")
           IN /\ collection' = r.coll
              /\ last' = [NoCall EXCEPT !.op = "add", !.chunks = <<chunk>>, !.ids = r.ids,
                                        !.err = r.err, !.embedCalls = r.embedCalls,
                                        !.indexCalls = r.indexCalls]
        /\ nextId' = nextId + 1
        /\ UNCHANGED <<pc, loc, seen, split, processors, documents_path>>

Search ==
    \E query \in Queries, n_results \in 1..MaxStored, where \in Filters,
       fault \in {"none", "search"} :
        /\ LET r == SearchCall(collection, query, n_results, where, fault)
           IN last' = [NoCall EXCEPT !.op = "search", !.query = query,
                                     !.n_results = n_results, !.where = where,
                                     !.fault = fault, !.results = r.results,
                                     !.err = r.err, !.searchCalls = 1]
        /\ UNCHANGED <<collection, nextId, pc, loc, seen, split, processors, documents_path>>

\* the fields of last a handler of QASystem fills
Returned(call, r) ==
    [call EXCEPT !.results = r.results, !.answer = r.answer, !.sources = r.sources,
                 !.context_used = r.context_used, !.items = r.items, !.tests = r.tests,
                 !.prompt = r.prompt, !.err = r.err,
                 !.searchCalls = r.searchCalls, !.llmCalls = r.llmCalls]

AnswerQuestion ==
    \E question \in Queries, n_results \in 1..MaxStored, fault \in Faults,
       response \in Answers :
        /\ last' = Returned([NoCall EXCEPT !.op = "answer_question", !.query = question,
                                           !.n_results = n_results, !.fault = fault,
                                           !.response = response],
                            answer_question(collection, question, n_results, fault, response))
        /\ UNCHANGED <<collection, nextId, pc, loc, seen, split, processors, documents_path>>

ExtractInsights ==
    \E document_name \in DocumentNames, max_insights \in 1..MaxStored, fault \in Faults,
       response \in InsightTexts :
        /\ last' = Returned([NoCall EXCEPT !.op = "extract_insights",
                                           !.filename = document_name,
                                           !.n_results = max_insights, !.fault = fault,
                                           !.response = response],
                            extract_insights(collection, document_name, max_insights,
                                             fault, response))
        /\ UNCHANGED <<collection, nextId, pc, loc, seen, split, processors, documents_path>>

GenerateTests ==
    \E document_name \in DocumentNames, test_type \in TestTypes, fault \in Faults,
       response \in TestTexts :
        /\ last' = Returned([NoCall EXCEPT !.op = "generate_tests",
                                           !.filename = document_name,
                                           !.query = test_type, !.fault = fault,
                                           !.response = response],
                            generate_tests(collection, document_name, test_type,
                                           fault, response))
        /\ UNCHANGED <<collection, nextId, pc, loc, seen, split, processors, documents_path>>

NextQA == QAAddChunk \/ Search \/ AnswerQuestion \/ ExtractInsights \/ GenerateTests

SpecQA == InitQA /\ [][NextQA]_vars

----------------------------------------------------------------------------
(* KnowledgeBase: add_document and delete_document over the store and the  *)
(* documents directory; documents_path holds the names of the files in     *)
(* config.DOCUMENTS_PATH.                                                  *)

\* the files a caller hands to add_document
KBPaths ==
    { [stem |-> "a", suffix |-> ".pdf", exists |-> TRUE],
      [stem |-> "b", suffix |-> ".docx", exists |-> TRUE],
      [stem |-> "a", suffix |-> ".pdf", exists |-> FALSE],
      [stem |-> "c", suffix |-> ".xyz", exists |-> TRUE] }

\* file_path.name
NameOf(path) == path.stem \o path.suffix

\* what PDFProcessor.process may return for a.pdf: a chunk per window of each
\* page that has text, none when no page has any
PdfOutputs ==
    { <<>>, <<PdfChunk("x", 1, 0)>>, <<PdfChunk("x", 1, 0), PdfChunk("y", 2, 0)>> }

\* what DOCXProcessor.process may return for b.docx: at least one chunk
DocxOutputs == { <<DocxChunk("x", 0)>> }

\* what process(file_path) may return for a file it can read
ChunksOf(path) ==
    CASE NameOf(path) = "a.pdf" -> PdfOutputs
      [] NameOf(path) = "b.docx" -> DocxOutputs
      [] OTHER -> { <<>> }

\* what a call on the KnowledgeBase leaves and returns
KBOutcome(coll, dir, err, filename, count, file_deleted, drawn) ==
    [coll |-> coll, dir |-> dir, err |-> err, filename |-> filename, count |-> count,
     file_deleted |-> file_deleted, drawn |-> drawn]

\* KnowledgeBase.add_document.  fault: "none", "embed" or "index" (inside
\* add_document_chunks), or "copy" (shutil.copy2 raises)
KnowledgeBase_add_document(coll, dir, procs, path, readable, chunks, drawn, fault) ==
    LET p == process_document(procs, path, readable)
        a == add_document_chunks(coll, chunks, drawn,
                                 IF fault \in {"embed", "index"} THEN fault ELSE "none")
    IN IF p.err # "none" THEN KBOutcome(coll, dir, p.err, "", 0, FALSE, drawn)
       ELSE IF a.err # "none"
       THEN KBOutcome(a.coll, dir, a.err, "", 0, FALSE, drawn + Len(chunks))
       ELSE IF fault = "copy"
       THEN KBOutcome(a.coll, dir, "OSError", "", 0, FALSE, drawn + Len(chunks))
       ELSE KBOutcome(a.coll, dir \cup {NameOf(path)}, "none", NameOf(path), Len(a.ids),
                      FALSE, drawn + Len(chunks))

\* KnowledgeBase.delete_document.  fault: "none" or "unlink" (file_path.unlink
\* raises)
KnowledgeBase_delete_document(coll, dir, filename, fault) ==
    LET chunks_deleted == delete_document(coll, filename)
    IN IF filename \in dir
       THEN IF fault = "unlink"
            THEN KBOutcome(chunks_deleted.coll, dir, "OSError", "", 0, FALSE, 0)
            ELSE KBOutcome(chunks_deleted.coll, dir \ {filename}, "none", filename,
                           chunks_deleted.count, TRUE, 0)
       ELSE KBOutcome(chunks_deleted.coll, dir, "none", filename,
                      chunks_deleted.count, FALSE, 0)

\* the names the callers ask to delete
KBNames == {"a.pdf", "b.docx"}

InitKB ==
    /\ collection = {}
    /\ nextId = 0
    /\ last = NoCall
    /\ pc = [c \in Callers |-> "idle"]
    /\ loc = [c \in Callers |-> [count |-> 0, ids |-> <<>>, filename |-> ""]]
    /\ seen = [c \in Callers |-> {}]
    /\ split = SplitIdle
    /\ processors = Registered(TRUE, TRUE)
    /\ documents_path = {}

KBAddDocument ==
    \E path \in KBPaths, readable \in BOOLEAN,
       fault \in {"none", "embed", "index", "copy"} :
        \E chunks \in ChunksOf(path) :
            /\ nextId + Len(chunks) <= MaxIds
            /\ LET r == KnowledgeBase_add_document(collection, documents_path, processors,
                                                   path, readable, chunks, nextId, fault)
               IN /\ collection' = r.coll
                  /\ documents_path' = r.dir
                  /\ nextId' = r.drawn
                  /\ last' = [NoCall EXCEPT !.op = "kb_add", !.path = path,
                                            !.chunks = chunks, !.fault = fault,
                                            !.filename = r.filename, !.count = r.count,
                                            !.err = r.err]
            /\ UNCHANGED <<pc, loc, seen, split, processors>>

KBDeleteDocument ==
    \E filename \in KBNames, fault \in {"none", "unlink"} :
        /\ LET r == KnowledgeBase_delete_document(collection, documents_path, filename, fault)
           IN /\ collection' = r.coll
              /\ documents_path' = r.dir
              /\ last' = [NoCall EXCEPT !.op = "kb_delete", !.fault = fault,
                                        !.filename = filename, !.count = r.count,
                                        !.file_deleted = r.file_deleted, !.err = r.err]
        /\ UNCHANGED <<nextId, pc, loc, seen, split, processors>>

NextKB == KBAddDocument \/ KBDeleteDocument

SpecKB == InitKB /\ [][NextKB]_vars

----------------------------------------------------------------------------
(* The claims about one caller's calls.                                    *)

FilenameOf(metadata) == Get(metadata, "filename", PyStr("absent"))

\* every result any search of the model returns on coll
SearchResults(coll) ==
    UNION {Range(search(coll, q, n, flt)) :
              q \in Queries, n \in 1..(MaxIds + 1), flt \in Filters}

\* C1: immediately after deleteDocument(f) returns, listDocuments() does not
\* contain f and no search, for any query, any n_results, with or without a
\* filter, returns a record whose metadata filename equals f.
C1_DeletionComplete ==
    last.op = "delete" =>
        /\ last.filename \notin Range(get_all_documents(collection))
        /\ \A res \in SearchResults(collection) :
              FilenameOf(res.metadata) # PyStr(last.filename)

\* a delete that removed two records and left others behind
C1_Witness ==
    /\ last.op = "delete"
    /\ last.count = 2
    /\ collection # {}

\* C2: deleteDocument(f) removes exactly the records whose metadata filename
\* equals f, alters no other record, and returns the number it removed; with
\* no such record it returns 0, raises nothing and leaves the store as it was.
C2_DeleteExact ==
    [][last'.op = "delete" =>
          LET f == PyStr(last'.filename)
              matching == {r \in collection : FilenameOf(r.metadata) = f}
          IN /\ collection' = collection \ matching
             /\ last'.count = Cardinality(matching)
             /\ last'.err = "none"
             /\ (matching = {} => collection' = collection /\ last'.count = 0)]_vars

\* a delete that removed one document's two records and kept another's
C2_Witness ==
    /\ last.op = "delete"
    /\ last.count = 2
    /\ \E r \in collection : FilenameOf(r.metadata) # PyStr(last.filename)

\* C3: listDocuments() returns exactly the distinct filename values of the
\* records now in the store, in ascending order and without duplicates.
C3_ListExact ==
    last.op = "list" =>
        /\ Range(last.documents) = {FilenameOf(r.metadata).s : r \in collection}
        /\ \A i, j \in DOMAIN last.documents :
              i < j => StrRank(last.documents[i]) < StrRank(last.documents[j])

\* a listing of two documents held in three records
C3_Witness ==
    /\ last.op = "list"
    /\ Len(last.documents) = 2
    /\ Cardinality(collection) = 3

\* the chunk's content comes back from a search over the whole collection
Searchable(coll, content) ==
    \E res \in Range(search(coll, content, Cardinality(coll), EmptyDict)) :
        res.content = content

\* C4: addChunks is atomic for its caller: either every chunk of the call is
\* a searchable record afterwards, or the call fails and the store holds
\* exactly the records it held before; a failing embedding inserts nothing.
C4_AddAtomic ==
    [][last'.op = "add" =>
          \/ /\ last'.err = "none"
             /\ Len(last'.ids) = Len(last'.chunks)
             /\ \A i \in DOMAIN last'.chunks :
                   /\ \E r \in collection' :
                         r.id = last'.ids[i] /\ r.document = last'.chunks[i].content
                   /\ Searchable(collection', last'.chunks[i].content)
          \/ /\ last'.err # "none"
             /\ collection' = collection]_vars

\* a two-chunk call whose embedding failed on a store that holds records
C4_Witness ==
    /\ last.op = "add"
    /\ last.err = "EmbeddingError"
    /\ Len(last.chunks) = 2
    /\ \A i \in DOMAIN last.chunks : \A k \in DOMAIN last.chunks[i].metadata :
          IsScalar(last.chunks[i].metadata[k])
    /\ collection # {}

\* C5: a successful addChunks of k chunks returns k ids in input order (none,
\* and no embedding or index call, for k = 0), pairwise distinct and not in the
\* store before, and raises the record count by exactly k; all ids in the
\* store stay pairwise distinct and no earlier record is replaced.
C5_FreshIds ==
    [][last'.op = "add" /\ last'.err = "none" =>
          LET k == Len(last'.chunks)
              ids == last'.ids
          IN /\ Len(ids) = k
             /\ \A i, j \in 1..k : i # j => ids[i] # ids[j]
             /\ \A i \in 1..k : ids[i] \notin Ids(collection)
             /\ \A i \in 1..k : \E r \in collection' :
                   r.id = ids[i] /\ r.document = last'.chunks[i].content
             /\ Cardinality(collection') = Cardinality(collection) + k
             /\ collection \subseteq collection'
             /\ \A r1, r2 \in collection' : r1.id = r2.id => r1 = r2
             /\ (k = 0 => last'.embedCalls = 0 /\ last'.indexCalls = 0)]_vars

\* a successful call after which the store holds the same content twice
C5_Witness ==
    /\ last.op = "add"
    /\ last.err = "none"
    /\ Len(last.ids) >= 1
    /\ \E r1, r2 \in collection :
          /\ r1.id # r2.id
          /\ r1.id = last.ids[1]
          /\ r1.document = r2.document
          /\ r1.metadata = r2.metadata

\* C6: every record in the store has a non-empty filename in its metadata,
\* whatever chunks addChunks was given.
C6_FilenameNonEmpty ==
    \A r \in collection :
        /\ "filename" \in DOMAIN r.metadata
        /\ r.metadata["filename"] # PyStr("")

\* C8: for one caller, stats() has total_documents = len(documents), and on a
\* non-empty store total_chunks >= total_documents >= 1.
C8_StatsConsistent ==
    last.op = "stats" =>
        /\ last.total_documents = Len(last.documents)
        /\ (collection # {} =>
               /\ last.total_chunks >= last.total_documents
               /\ last.total_documents >= 1)

\* stats of two documents held in three records
C8_Witness ==
    /\ last.op = "stats"
    /\ last.total_chunks = 3
    /\ last.total_documents = 2

HasNonScalar(chunk) == \E k \in DOMAIN chunk.metadata : ~IsScalar(chunk.metadata[k])

\* C9: addChunks rejects a chunk whose metadata holds a non-scalar value with
\* an error and stores nothing from that call.
C9_NonScalarRejected ==
    [][(last'.op = "add" /\ \E i \in DOMAIN last'.chunks : HasNonScalar(last'.chunks[i]))
          => (last'.err # "none" /\ collection' = collection)]_vars

\* C10: for every chunk added with all-scalar metadata the stored record has
\* the chunk's content and every key of the chunk's metadata with its value.
C10_MetadataVerbatim ==
    (last.op = "add" /\ last.err = "none") =>
        \A i \in DOMAIN last.chunks :
            ~HasNonScalar(last.chunks[i]) =>
                \E r \in collection :
                    /\ r.id = last.ids[i]
                    /\ r.document = last.chunks[i].content
                    /\ \A k \in DOMAIN last.chunks[i].metadata :
                          /\ k \in DOMAIN r.metadata
                          /\ r.metadata[k] = last.chunks[i].metadata[k]

----------------------------------------------------------------------------
(* The claims about interleaved callers.                                   *)

\* C7: stats() computes total_chunks and the document list from one snapshot:
\* whatever interleaves with the call, some single state of the store during
\* the call has the returned record count and the returned documents, so
\* total_chunks >= total_documents holds of every answer on a non-empty count.
C7_StatsSnapshot ==
    (last.op = "stats" /\ last.caller \in Callers) =>
        /\ \E s \in seen[last.caller] :
              /\ s.total_chunks = last.total_chunks
              /\ s.documents = last.documents
        /\ last.total_chunks >= last.total_documents

----------------------------------------------------------------------------
(* The claims about the chunker.                                           *)

\* C17: in the DOCX and the PDF splitter alike, a configured overlap >=
\* chunk_size is replaced by chunk_size // 2, so every window start advances
\* by chunk_size - chunk_size // 2 > 0.
C17_OverlapClamp ==
    [][(split.pc = "loop" /\ split.chunk_size > 0 /\ split.overlap >= split.chunk_size) =>
          /\ split.chunk_overlap = split.chunk_size \div 2
          /\ (split'.pc = "loop" /\ split'.chunks # split.chunks =>
                 /\ split'.start = split.start + (split.chunk_size - split.chunk_size \div 2)
                 /\ split'.start > split.start)]_vars

\* where the last window of chunks ends in a text of distinct characters 1..n
LastEnd(chunks) ==
    IF chunks = <<>> \/ chunks[Len(chunks)] = <<>> THEN 0 - 1
    ELSE chunks[Len(chunks)][Len(chunks[Len(chunks)])]

\* C18: for len(text) > 0 and chunk_size > 0, whatever the overlap, the split
\* is finite (every iteration moves start forward, so the loop ends) and its
\* last window ends at len(text); a text no longer than chunk_size comes back
\* as the single element text.
C18_Termination ==
    [][(Len(split.text) > 0 /\ split.chunk_size > 0) =>
          /\ (split.pc = "loop" /\ split'.pc = "loop" => split'.start > split.start)
          /\ (split'.pc = "done" =>
                 /\ LastEnd(split'.chunks) = Len(split.text)
                 /\ (Len(split.text) <= split.chunk_size =>
                        split'.chunks = <<split.text>>))]_vars

\* a chunk without its first n characters: nothing of a chunk no longer than n
DropFirst(chunk, n) ==
    IF Len(chunk) <= n THEN <<>> ELSE SubSeq(chunk, n + 1, Len(chunk))

\* the first chunk whole, then every later chunk without its first overlap
\* characters, in order
RECURSIVE Reconstruct(_, _)
Reconstruct(chunks, overlap) ==
    IF Len(chunks) <= 1 THEN (IF chunks = <<>> THEN <<>> ELSE chunks[1])
    ELSE Reconstruct(SubSeq(chunks, 1, Len(chunks) - 1), overlap)
            \o DropFirst(chunks[Len(chunks)], overlap)

\* C19: for chunk_size > 0 and 0 <= overlap < chunk_size, the first chunk
\* followed by every later chunk without its first overlap characters is the
\* text: no character lost, duplicated or out of order.
C19_Coverage ==
    (split.pc = "done" /\ split.chunk_size > 0
        /\ 0 <= split.overlap /\ split.overlap < split.chunk_size) =>
        Reconstruct(split.chunks, split.overlap) = split.text

\* a PDF split into three windows or more, the last one inside the overlap
C19_Witness ==
    /\ split.pc = "done"
    /\ split.proc = "pdf"
    /\ split.chunk_size > 0
    /\ 1 <= split.overlap /\ split.overlap < split.chunk_size
    /\ Len(split.chunks) >= 3
    /\ Len(split.chunks[Len(split.chunks)]) <= split.overlap

\* C20: a chunk_size <= 0 is rejected as invalid configuration, with no window
\* produced and no loop entered; and a configuration the loop runs on never
\* has a stride chunk_size - effective overlap of 0.
C20_ChunkSizeValidated ==
    /\ (split.chunk_size <= 0 =>
           /\ split.pc \in {"call", "rejected"}
           /\ split.chunks = <<>>)
    /\ (split.pc = "loop" => split.chunk_size - split.chunk_overlap # 0)

----------------------------------------------------------------------------
(* The claims about the processor registry.                                *)

\* the processors registered before position i that can process path
EarlierMatch(i, path) == \E j \in 1..(i - 1) : can_process(processors[j], path)

\* C16: processDocument fails with FileNotFound whenever the path does not
\* exist, whatever its extension; with UnsupportedFormat when it exists and no
\* registered processor accepts it; otherwise it returns, unchanged, what the
\* first registered processor that accepts the path returns.  selectProcessor
\* returns that first matching processor (the PDF one for .pdf, the DOCX one
\* for .docx, when registered) and not-found for an unregistered extension.
C16_Registry ==
    /\ last.op = "process_document" =>
          /\ ~last.path.exists =>
                (last.err = "FileNotFoundError" /\ last.output = NoOutput)
          /\ (last.path.exists /\ \A i \in DOMAIN processors :
                                     ~can_process(processors[i], last.path)) =>
                (last.err = "ValueError" /\ last.output = NoOutput)
          /\ \A i \in DOMAIN processors :
                (last.path.exists /\ can_process(processors[i], last.path)
                    /\ ~EarlierMatch(i, last.path)) =>
                    /\ last.processor = processors[i]
                    /\ \E readable \in BOOLEAN :
                          /\ last.err = process(processors[i], last.path, readable).err
                          /\ last.output = process(processors[i], last.path, readable).output
    /\ last.op = "get_processor" =>
          /\ \A i \in DOMAIN processors :
                (can_process(processors[i], last.path) /\ ~EarlierMatch(i, last.path)) =>
                    last.processor = processors[i]
          /\ (\A i \in DOMAIN processors : ~can_process(processors[i], last.path)) =>
                last.processor = "None"
          /\ (processors = <<"pdf", "docx">> /\ last.path.suffix = ".pdf") =>
                last.processor = "pdf"
          /\ (processors = <<"pdf", "docx">> /\ last.path.suffix = ".docx") =>
                last.processor = "docx"
          /\ last.path.suffix = ".xyz" => last.processor = "None"

\* a missing file of an unregistered extension, reported as not found
C16_Witness ==
    /\ last.op = "process_document"
    /\ ~last.path.exists
    /\ last.path.suffix = ".xyz"
    /\ last.err = "FileNotFoundError"
    /\ processors = <<"pdf", "docx">>

----------------------------------------------------------------------------
(* The claims about search and the question-answering handlers.            *)

\* the records of the store that match the filter of the last search
Matching == {r \in collection : Matches(r.metadata, last.where)}

\* C11: search(query, n_results, filter) returns at most n_results results,
\* each a stored record whose metadata equals the filter on every provided
\* key, in non-decreasing order of distance to the query, one formatted result
\* per match of the index and in the index's order; with an empty store, or
\* when no record matches the filter, it returns the empty sequence and no
\* error.
C11_Search ==
    (last.op = "search" /\ last.fault = "none") =>
        LET results == last.results
            matches == CollQuery(collection, Embed(last.query), last.n_results, last.where)
        IN /\ last.err = "none"
           /\ Len(results) <= last.n_results
           /\ \A i \in DOMAIN results :
                 \E r \in collection :
                     /\ r.document = results[i].content
                     /\ r.metadata = results[i].metadata
                     /\ Distance(r.embedding, Embed(last.query)) = results[i].distance
                     /\ \A k \in DOMAIN last.where :
                           k \in DOMAIN r.metadata /\ r.metadata[k] = last.where[k]
           /\ \A i \in DOMAIN results, j \in DOMAIN results :
                 i < j => results[i].distance <= results[j].distance
           /\ Len(results) = Len(matches)
           /\ \A i \in DOMAIN results :
                 /\ results[i].content = matches[i].document
                 /\ results[i].metadata = matches[i].metadata
           /\ (collection = {} \/ Matching = {}) => results = <<>>

\* a filtered search that leaves a stored record out and cuts at n_results
C11_Witness ==
    /\ last.op = "search"
    /\ last.fault = "none"
    /\ last.where # EmptyDict
    /\ Cardinality(collection) = MaxStored
    /\ Cardinality(Matching) < Cardinality(collection)
    /\ last.n_results = 1
    /\ Len(last.results) = 1

\* C12: when search returns no results, answerQuestion returns the fixed
\* no-relevant-information answer with empty sources and empty context_used,
\* and the completion capability is invoked zero times during the call.
C12_NoResults ==
    (last.op = "answer_question" /\ last.fault # "search" /\ last.results = <<>>) =>
        /\ last.err = "none"
        /\ last.answer = NoAnswer
        /\ last.sources = <<>>
        /\ last.context_used = <<>>
        /\ last.llmCalls = 0

\* a question put to the empty store, with a completion that would fail
C12_Witness ==
    /\ last.op = "answer_question"
    /\ last.fault = "llm"
    /\ collection = {}
    /\ last.results = <<>>
    /\ last.answer = NoAnswer

\* C13: when search returns k >= 1 results, answerQuestion returns exactly k
\* sources and k context_used entries; the i-th source carries the filename,
\* page_number and chunk_index of the i-th search result (a chunk stored from
\* page 2 yields page_number 2), and the i-th context entry is taken from the
\* i-th result's content.
C13_Attribution ==
    (last.op = "answer_question" /\ last.err = "none" /\ Len(last.results) >= 1) =>
        LET results == last.results
        IN /\ Len(last.sources) = Len(results)
           /\ Len(last.context_used) = Len(results)
           /\ \A i \in DOMAIN results :
                 /\ i \in DOMAIN last.sources /\ i \in DOMAIN last.context_used
                 /\ last.sources[i].filename = results[i].metadata["filename"]
                 /\ last.sources[i].page_number =
                        Get(results[i].metadata, "page_number", PyNone)
                 /\ last.sources[i].chunk_index =
                        Get(results[i].metadata, "chunk_index", PyNone)
                 /\ (\E r \in collection :
                        /\ r.document = results[i].content
                        /\ r.metadata = results[i].metadata
                        /\ Get(r.metadata, "page_number", PyNone) = PyInt(2))
                       => last.sources[i].page_number = PyInt(2)
                 /\ Slice(last.context_used[i], 0, ExcerptLimit)
                        = Slice(results[i].content, 0, ExcerptLimit)

\* two sources, the chunk of page 2 retrieved before the chunk of page 1 that
\* was stored before it
C13_Witness ==
    /\ last.op = "answer_question"
    /\ last.err = "none"
    /\ Len(last.sources) = 2
    /\ last.sources[1].page_number = PyInt(2)
    /\ last.sources[2].page_number = PyInt(1)
    /\ \E r \in collection, o \in collection :
          /\ r.id < o.id
          /\ Get(r.metadata, "page_number", PyNone) = PyInt(1)
          /\ Get(o.metadata, "page_number", PyNone) = PyInt(2)

\* C14: every entry of context_used returned by answerQuestion has length at
\* most 200 characters, for retrieved contents of any length.
C14_ExcerptLength ==
    last.op = "answer_question" =>
        \A i \in DOMAIN last.context_used : Len(last.context_used[i]) <= ExcerptLimit

\* C14, as the code has it: an entry of context_used is the retrieved content
\* when that has at most 200 characters, and otherwise its first 200
\* characters followed by "...": at most 203 characters.
C14_ExcerptEllipsis ==
    (last.op = "answer_question" /\ last.err = "none") =>
        \A i \in DOMAIN last.context_used :
            LET content == last.results[i].content
                entry == last.context_used[i]
            IN /\ Len(content) <= ExcerptLimit => entry = content
               /\ Len(content) > ExcerptLimit =>
                     /\ Len(entry) = ExcerptLimit + 3
                     /\ SubSeq(entry, 1, ExcerptLimit) = SubSeq(content, 1, ExcerptLimit)
                     /\ SubSeq(entry, ExcerptLimit + 1, ExcerptLimit + 3) = "..."

\* a content of 201 characters and one of exactly 200 in the same answer
C14_Witness ==
    /\ last.op = "answer_question"
    /\ last.err = "none"
    /\ \E i \in DOMAIN last.context_used :
          Len(last.results[i].content) = ExcerptLimit + 1
              /\ Len(last.context_used[i]) = ExcerptLimit + 3
    /\ \E i \in DOMAIN last.context_used :
          Len(last.results[i].content) = ExcerptLimit
              /\ Len(last.context_used[i]) = ExcerptLimit

QAOps == {"answer_question", "extract_insights", "generate_tests"}

\* the last call returned nothing to its caller
NothingReturned ==
    /\ last.answer = ""
    /\ last.sources = <<>>
    /\ last.context_used = <<>>
    /\ last.items = <<>>
    /\ last.tests = <<>>

\* C15: in each of answerQuestion, extractInsights and generateTests the
\* completion capability is invoked at most once per call and never after a
\* failed or empty retrieval; a failure of search or of the completion call is
\* not retried and propagates to the caller as an error, with no answer,
\* insight list or test list returned for that call.
C15_OneCompletion ==
    last.op \in QAOps =>
        /\ last.llmCalls <= 1
        /\ last.searchCalls = 1
        /\ (last.fault = "search" \/ last.results = <<>>) => last.llmCalls = 0
        /\ last.fault = "search" => (last.err = "search" /\ NothingReturned)
        /\ (last.fault = "llm" /\ last.results # <<>>) =>
              (last.err = "llm" /\ last.llmCalls = 1 /\ NothingReturned)
        /\ (last.fault = "none" \/ (last.fault = "llm" /\ last.results = <<>>)) =>
              last.err = "none"

\* a completion that fails after a retrieval that found something
C15_Witness ==
    /\ last.op = "generate_tests"
    /\ last.fault = "llm"
    /\ last.results # <<>>
    /\ last.err = "llm"
    /\ last.llmCalls = 1

----------------------------------------------------------------------------
(* The claims about the parsing of the completion's text.                  *)

\* a trimmed line that begins with a digit, "-" or the bullet
IsMarked(line) == line # "" /\ Char(line, 1) \in Digits \cup {"-", Bullet}

\* a marked line without its list marker: the number with the "." or ")"
\* after it, or the one "-" or bullet, and the blanks around what is left
MarkerStripped(line) ==
    LET afterNumber == lstrip(line, Digits)
        rest == IF Char(line, 1) \in Digits
                THEN IF afterNumber # "" /\ Char(afterNumber, 1) \in {".", ")"}
                     THEN SubSeq(afterNumber, 2, Len(afterNumber))
                     ELSE afterNumber
                ELSE SubSeq(line, 2, Len(line))
    IN strip(rest)

\* the marked lines of the text in their order, each without its marker; a
\* line that is its marker and nothing else gives no insight
RECURSIVE MarkedLines(_)
MarkedLines(lines) ==
    IF lines = <<>> THEN <<>>
    ELSE LET line == strip(Head(lines))
         IN (IF IsMarked(line) /\ MarkerStripped(line) # ""
             THEN <<MarkerStripped(line)>> ELSE <<>>) \o MarkedLines(Tail(lines))

\* C21: extractInsights returns, in their order of appearance, the first
\* maxInsights of the model-output lines that after trimming begin with a
\* digit, "-" or the bullet, each with only its leading list marker stripped
\* and the rest of the line kept as is (a text that itself starts with a digit
\* after the marker is not eaten); lines without a marker never appear and
\* the result never has more than maxInsights entries.
C21_InsightsParsed ==
    (last.op = "extract_insights" /\ last.err = "none" /\ last.results # <<>>) =>
        /\ Len(last.items) <= last.n_results
        /\ last.items = Slice(MarkedLines(split_lines(last.response)), 0, last.n_results)

\* the positions of the lines that hold "Test ID" or "Test Case"
MarkerLines(lines) ==
    {i \in DOMAIN lines : Contains(lines[i], "Test ID") \/ Contains(lines[i], "Test Case")}

\* the k-th of those positions
MarkerAt(lines, k) ==
    CHOOSE i \in MarkerLines(lines) : Cardinality({j \in MarkerLines(lines) : j < i}) = k - 1

\* the last line of the record that begins at line i: the line before the next
\* marker line, or the last line of the text
RecordEnd(lines, i) ==
    IF \E j \in MarkerLines(lines) : j > i
    THEN (CHOOSE j \in MarkerLines(lines) :
              j > i /\ \A o \in MarkerLines(lines) : o > i => j <= o) - 1
    ELSE Len(lines)

\* one record per marker line: the marker line and the lines after it up to
\* the next marker line or the end, joined by newlines
RecordsOf(lines) ==
    [k \in 1..Cardinality(MarkerLines(lines)) |->
        [full_text |-> join("\n", SubSeq(lines, MarkerAt(lines, k),
                                         RecordEnd(lines, MarkerAt(lines, k))))]]

\* each line without the blanks around it
Trimmed(lines) == [i \in DOMAIN lines |-> strip(lines[i])]

\* C22: generateTests returns exactly one record per model-output line that
\* contains "Test ID" or "Test Case", in order; the full_text of a record is
\* that marker line followed by every later line up to (not including) the
\* next marker line or the end of the text, joined by newlines; lines before
\* the first marker belong to no record, and a response without a marker line
\* yields the empty list.
C22_TestsParsed ==
    (last.op = "generate_tests" /\ last.err = "none" /\ last.results # <<>>) =>
        last.tests = RecordsOf(split_lines(last.response))

\* C22, as the code has it: the same, with every line of the model output
\* taken without its leading and trailing whitespace, in the marker line and
\* in the lines that follow it.
C22_TestsTrimmed ==
    (last.op = "generate_tests" /\ last.err = "none" /\ last.results # <<>>) =>
        /\ last.tests = RecordsOf(Trimmed(split_lines(last.response)))
        /\ Len(last.tests) = Cardinality(MarkerLines(split_lines(last.response)))
        /\ MarkerLines(split_lines(last.response)) = {} => last.tests = <<>>

\* two records from a text with a line before the first marker, an empty line
\* inside the first record and an indented line in the second
C22_Witness ==
    /\ last.op = "generate_tests"
    /\ last.err = "none"
    /\ last.response = "intro\nTest ID: 1\nstep a\n\nTest Case 2\n  step b "
    /\ last.tests = <<[full_text |-> "Test ID: 1\nstep a\n"],
                      [full_text |-> "Test Case 2\nstep b"]>>

----------------------------------------------------------------------------
(* The claims about the KnowledgeBase.                                     *)

\* C23: after any sequence of completed addDocument and deleteDocument calls,
\* successful or failed, the documents directory holds a copy named f if and
\* only if listDocuments() contains f: no document has stored chunks and no
\* file copy, or a file copy and no stored chunks.
C23_FilesMatchChunks ==
    \A f \in KBNames :
        f \in documents_path <=> f \in Range(get_all_documents(collection))

\* C24: when deleteDocument(f) calls of independent callers interleave with
\* each other or with addChunks, the count a call returns is the number of
\* records that call removed from the index, so the counts of all calls sum to
\* the number of records removed.
C24_DeleteCounts ==
    [][\A c \in Callers :
          (pc[c] = "delete_got" /\ pc'[c] = "idle") =>
              last'.count = Cardinality(collection) - Cardinality(collection')]_vars

====
